---- MODULE Spec2Model ----
(***************************************************************************)
(* tinky-status-message: the Unicode-support detector                      *)
(* (src/utils/unicode.ts), the default theme                               *)
(* (themes/status-message-theme) and the StatusMessage component           *)
(* (components/StatusMessage.tsx).                                         *)
(*                                                                         *)
(* JavaScript values are modelled as follows.  A string whose characters   *)
(* matter is Str(cs) with cs a sequence of one-character strings;          *)
(* `undefined` is the record undefined.  An object is a function from the  *)
(* property names it holds to their values: a property that is absent is   *)
(* not in the DOMAIN, a property that is present with the value undefined  *)
(* maps to undefined.                                                      *)
(***************************************************************************)
EXTENDS Integers, Sequences, FiniteSets

VARIABLES
    pending,    \* arguments of the isUnicodeSupported calls still to be made
    log,        \* the calls made so far: argument, mapping afterwards, result
    styleCall,  \* the last direct call of a style function of the default theme
    figures,    \* the symbol set useFigures() supplies
    theme,      \* the component theme useComponentTheme() finds for "StatusMessage"
    props,      \* the props of the mounted StatusMessage, or none
    tree,       \* the element tree its last render returned, or none
    renders,    \* the renders the host has asked for, oldest first
    objects,    \* the records the style functions have returned, by address
    styleLog    \* the style function calls of a sequence of calls

vars == <<pending, log, styleCall, figures, theme, props, tree,
          renders, objects, styleLog>>

----------------------------------------------------------------------------
(* Bounds *)

\* Longest run of padding characters put before and after a recognised text.
MaxPad == 1
\* Longest sequence of isUnicodeSupported calls made one after the other.
MaxCalls == 3
\* Deepest nesting of elements in the content given to StatusMessage.
MaxDepth == 2
\* Longest sequence of renders the host asks for.
MaxRenders == 3
\* Longest sequence of style function calls and changes of their results.
MaxStyleCalls == 3

----------------------------------------------------------------------------
(* JavaScript values *)

undefined == [t |-> "undefined"]
Str(cs) == [t |-> "string", chars |-> cs]

\* x || "" on a value that is a string or undefined: undefined and the empty
\* string are falsy.
OrEmpty(v) == IF v = undefined \/ v = Str(<<>>) THEN <<>> ELSE v.chars

\* What every object literal inherits from Object.prototype (the members
\* a lookup by an arbitrary string is most likely to meet).
Inherited(name) == [t |-> "inherited", name |-> name]

ObjectPrototype ==
    [key \in {"constructor", "toString", "valueOf", "hasOwnProperty", "__proto__"}
        |-> Inherited(key)]

\* obj[key] on an object literal: the own property, else the inherited one,
\* else undefined.
Get(obj, key) ==
    IF key \in DOMAIN obj THEN obj[key]
    ELSE IF key \in DOMAIN ObjectPrototype THEN ObjectPrototype[key]
    ELSE undefined

LowerOf ==
    [A |-> "a", B |-> "b", C |-> "c", D |-> "d", E |-> "e", F |-> "f",
     G |-> "g", H |-> "h", I |-> "i", J |-> "j", K |-> "k", L |-> "l",
     M |-> "m", N |-> "n", O |-> "o", P |-> "p", Q |-> "q", R |-> "r",
     S |-> "s", T |-> "t", U |-> "u", V |-> "v", W |-> "w", X |-> "x",
     Y |-> "y", Z |-> "z"]

\* String.prototype.toLowerCase
toLowerCase(s) ==
    [i \in 1..Len(s) |-> IF s[i] \in DOMAIN LowerOf THEN LowerOf[s[i]] ELSE s[i]]

\* String.prototype.includes: scan the start positions from the left.
RECURSIVE includesFrom(_, _, _)
includesFrom(s, sub, i) ==
    IF i + Len(sub) - 1 > Len(s) THEN FALSE
    ELSE IF SubSeq(s, i, i + Len(sub) - 1) = sub THEN TRUE
    ELSE includesFrom(s, sub, i + 1)

includes(s, sub) == includesFrom(s, sub, 1)

----------------------------------------------------------------------------
(* src/utils/unicode.ts *)

utf8 == <<"u", "t", "f", "-", "8">>
truecolor == <<"t", "r", "u", "e", "c", "o", "l", "o", "r">>
bit24 == <<"2", "4", "b", "i", "t">>
vscode == <<"v", "s", "c", "o", "d", "e">>
iTermApp == <<"i", "T", "e", "r", "m", ".", "a", "p", "p">>
TerminalApp == <<"T", "e", "r", "m", "i", "n", "a", "l", ".", "a", "p", "p">>
win32 == <<"w", "i", "n", "3", "2">>

\* Variant: the parameter has no default value.
envOf_noDefault(arg) == arg

\* The default parameter: env = {} when the argument is undefined.
envOf(arg) == IF arg = undefined THEN <<>> ELSE arg

\* Variant: the locale text is not lower-cased before it is searched.
hasUtf8Locale_caseSensitive(env) ==
    LET lang == OrEmpty(Get(env, "LANG"))
    IN  includes(lang, utf8)

\* Variant: the spelling without the hyphen is accepted too.
hasUtf8Locale_noHyphen(env) ==
    LET lang == OrEmpty(Get(env, "LANG"))
    IN  \/ includes(toLowerCase(lang), utf8)
        \/ includes(toLowerCase(lang), <<"u", "t", "f", "8">>)

\* Variant: hyphens are dropped from the locale text before it is searched.
hasUtf8Locale_hyphenDropped(env) ==
    LET lang == OrEmpty(Get(env, "LANG"))
        NotHyphen(ch) == ch # "-"
    IN  includes(SelectSeq(toLowerCase(lang), NotHyphen), <<"u", "t", "f", "8">>)

\* Variant: LC_ALL is consulted before LANG, as POSIX locale lookup does.
hasUtf8Locale_lcAll(env) ==
    LET lang == IF OrEmpty(Get(env, "LC_ALL")) # <<>>
                THEN OrEmpty(Get(env, "LC_ALL"))
                ELSE OrEmpty(Get(env, "LANG"))
    IN  includes(toLowerCase(lang), utf8)

hasUtf8Locale(env) ==
    LET lang == OrEmpty(Get(env, "LANG"))
    IN  includes(toLowerCase(lang), utf8)

\* Variant: the terminal values are compared whole instead of searched.
hasModernTerminal_exact(env) ==
    LET colorterm == OrEmpty(Get(env, "COLORTERM"))
        termProgram == OrEmpty(Get(env, "TERM_PROGRAM"))
    IN  \/ colorterm = truecolor
        \/ colorterm = bit24
        \/ termProgram = vscode
        \/ termProgram = iTermApp
        \/ termProgram = TerminalApp

hasModernTerminal(env) ==
    LET colorterm == OrEmpty(Get(env, "COLORTERM"))
        termProgram == OrEmpty(Get(env, "TERM_PROGRAM"))
    IN  \/ includes(colorterm, truecolor)
        \/ includes(colorterm, bit24)
        \/ includes(termProgram, vscode)
        \/ includes(termProgram, iTermApp)
        \/ includes(termProgram, TerminalApp)

\* Variant: any platform whose name contains "win" counts as Windows.
isWindows_containsWin(env) ==
    LET platform == OrEmpty(Get(env, "platform"))
    IN  includes(platform, <<"w", "i", "n">>)

isWindows(env) ==
    LET platform == OrEmpty(Get(env, "platform"))
    IN  platform = win32

\* Variant: a positive detection is remembered and returned by later calls.
isUnicodeSupported_sticky(arg) ==
    LET env == envOf(arg)
    IN  \/ \E i \in DOMAIN log : log[i].result
        \/ hasUtf8Locale(env) \/ hasModernTerminal(env) \/ ~isWindows(env)

\* Variant: the platform is a condition of its own, joined with && .
isUnicodeSupported_andNotWindows(arg) ==
    LET env == envOf(arg)
    IN  (hasUtf8Locale(env) \/ hasModernTerminal(env)) /\ ~isWindows(env)

isUnicodeSupported(arg) ==
    LET env == envOf(arg)
    IN  hasUtf8Locale(env) \/ hasModernTerminal(env) \/ ~isWindows(env)

\* env.KEY || "" : the value the string method is then called on.
receiverOf(env, key) ==
    LET v == Get(env, key)
    IN  IF v = undefined \/ v = Str(<<>>) THEN Str(<<>>) ELSE v

\* Whether the body raises a TypeError: a property is read from an env that
\* is undefined, or toLowerCase or includes is called on a value that is not
\* a string. platform is only compared with ===, which never raises.
raises(arg) ==
    LET env == envOf(arg)
    IN  \/ env = undefined
        \/ \E key \in {"LANG", "COLORTERM", "TERM_PROGRAM"} :
               receiverOf(env, key).t # "string"

\* The mapping the caller passed, as it is after the call: the body assigns
\* to locals only.
envAfterCall(arg) == arg

----------------------------------------------------------------------------
(* themes/status-message-theme (src/index.ts, lines 54-371) *)

green == Str(<<"g", "r", "e", "e", "n">>)
red == Str(<<"r", "e", "d">>)
yellow == Str(<<"y", "e", "l", "l", "o", "w">>)
blue == Str(<<"b", "l", "u", "e">>)

Variants == {"info", "success", "error", "warning"}

\* Variant: the colors of warning and info are exchanged.
colorByVariant_exchanged ==
    [success |-> green, error |-> red, warning |-> blue, info |-> yellow]

\* Variant: warning is drawn in the color of error.
colorByVariant_warningAsError ==
    [success |-> green, error |-> red, warning |-> red, info |-> blue]

colorByVariant ==
    [success |-> green, error |-> red, warning |-> yellow, info |-> blue]

\* Variant: the gap is wider for the error variant.
container_byVariant(arg) ==
    IF arg # undefined /\ arg.variant = "error"
    THEN [columnGap |-> 2]
    ELSE [columnGap |-> 1]

\* The three style functions below declare no parameter: an argument passed
\* to them is ignored.
container(arg) == [columnGap |-> 1]

iconContainer(arg) == [flexShrink |-> 0]

icon(themeProps) == [color |-> Get(colorByVariant, themeProps.variant)]

message(arg) == <<>>

\* The theme holds its style functions by name.
statusMessageTheme ==
    [styles |-> [container |-> "container", iconContainer |-> "iconContainer",
                 icon |-> "icon", message |-> "message"]]

\* The container of the documented custom theme: () => ({ columnGap: 2 }).
customContainer(arg) == [columnGap |-> 2]

\* { ...statusMessageTheme, styles: { ...statusMessageTheme.styles, container } }
customTheme ==
    [styles |-> [statusMessageTheme.styles EXCEPT !.container = "customContainer"]]

\* Overrides a host may give for the other slots, in the manner of the
\* README: icon: (props) => ({ color: customColorMap[props.variant] }).
cyan == Str(<<"c", "y", "a", "n">>)
magenta == Str(<<"m", "a", "g", "e", "n", "t", "a">>)
white == Str(<<"w", "h", "i", "t", "e">>)
gray == Str(<<"g", "r", "a", "y">>)

customColorMap ==
    [success |-> cyan, error |-> magenta, warning |-> white, info |-> gray]

customIconContainer(arg) == [flexShrink |-> 1]

customIcon(themeProps) == [color |-> Get(customColorMap, themeProps.variant)]

customMessage(arg) == [bold |-> TRUE]

Slots == {"container", "iconContainer", "icon", "message"}

customStyles ==
    [container |-> "customContainer", iconContainer |-> "customIconContainer",
     icon |-> "customIcon", message |-> "customMessage"]

\* The default theme with the slots of `overridden` replaced.
ThemeWith(overridden) ==
    [styles |-> [slot \in Slots |->
                    IF slot \in overridden
                    THEN customStyles[slot]
                    ELSE statusMessageTheme.styles[slot]]]

Themes == {ThemeWith(overridden) : overridden \in SUBSET Slots}

\* Calling the style function of that name.
ApplyStyle(fn, arg) ==
    CASE fn = "container" -> container(arg)
      [] fn = "iconContainer" -> iconContainer(arg)
      [] fn = "icon" -> icon(arg)
      [] fn = "message" -> message(arg)
      [] fn = "customContainer" -> customContainer(arg)
      [] fn = "customIconContainer" -> customIconContainer(arg)
      [] fn = "customIcon" -> customIcon(arg)
      [] fn = "customMessage" -> customMessage(arg)

----------------------------------------------------------------------------
(* components/StatusMessage.tsx *)

\* A code point stands for the one character it names.
figuresUnicode ==
    [info |-> Str(<<"U+2139">>), tick |-> Str(<<"U+2714">>),
     cross |-> Str(<<"U+2718">>), warning |-> Str(<<"U+26A0">>)]

figuresFallback ==
    [info |-> Str(<<"i">>), tick |-> Str(<<"U+221A">>),
     cross |-> Str(<<"U+00D7">>), warning |-> Str(<<"U+203C">>)]

FigureSets == {figuresUnicode, figuresFallback}

\* React.createElement(type, props, ...children)
Element(type, styleProps, children) ==
    [type |-> type, props |-> styleProps, children |-> children]

\* The component hands one props object to the hook for the whole theme: the
\* hook has nothing else to call a style function with, whatever its slot.
SlotArgs(current, themeProps) ==
    [slot \in DOMAIN current.styles |-> themeProps]

\* useComponentTheme("StatusMessage", statusMessageTheme, { variant }): the
\* styles of the theme in effect, each style function resolved to its record.
useComponentTheme(current, themeProps) ==
    [styles |-> [slot \in DOMAIN current.styles |->
                    ApplyStyle(current.styles[slot],
                               SlotArgs(current, themeProps)[slot])]]

\* The props object StatusMessage builds for the hook: { variant }.
themePropsOf(p) == [variant |-> p.variant]

\* Variant: the symbols of success and error are exchanged.
iconByVariant_exchanged(symbols) ==
    [info |-> symbols.info, success |-> symbols.cross,
     error |-> symbols.tick, warning |-> symbols.warning]

\* Variant: the component carries its own Unicode glyphs and ignores the
\* symbol set it is given.
iconByVariant_ownGlyphs(symbols) ==
    [info |-> figuresUnicode.info, success |-> figuresUnicode.tick,
     error |-> figuresUnicode.cross, warning |-> figuresUnicode.warning]

iconByVariant(symbols) ==
    [info |-> symbols.info, success |-> symbols.tick,
     error |-> symbols.cross, warning |-> symbols.warning]

\* Variant: the content is turned into a string before it is rendered.
StatusMessage_stringified(p, symbols, current) ==
    LET styles == useComponentTheme(current, themePropsOf(p)).styles
        symbol == Get(iconByVariant(symbols), p.variant)
        text == IF "type" \in DOMAIN p.children
                THEN Str(<<"[", "o", "b", "j", "e", "c", "t", " ",
                           "O", "b", "j", "e", "c", "t", "]">>)
                ELSE p.children
    IN  Element("Box", styles.container,
                <<Element("Box", styles.iconContainer,
                          <<Element("Text", styles.icon, <<symbol>>)>>),
                  Element("Text", styles.message, <<text>>)>>)

\* Variant: the message is emitted before the icon container.
StatusMessage_messageFirst(p, symbols, current) ==
    LET styles == useComponentTheme(current, themePropsOf(p)).styles
        symbol == Get(iconByVariant(symbols), p.variant)
    IN  Element("Box", styles.container,
                <<Element("Text", styles.message, <<p.children>>),
                  Element("Box", styles.iconContainer,
                          <<Element("Text", styles.icon, <<symbol>>)>>)>>)

\* Variant: the outer container and the icon container exchange their styles.
StatusMessage_stylesSwapped(p, symbols, current) ==
    LET styles == useComponentTheme(current, themePropsOf(p)).styles
        symbol == Get(iconByVariant(symbols), p.variant)
    IN  Element("Box", styles.iconContainer,
                <<Element("Box", styles.container,
                          <<Element("Text", styles.icon, <<symbol>>)>>),
                  Element("Text", styles.message, <<p.children>>)>>)

\* Variant: the styles are taken from statusMessageTheme itself, whatever
\* theme the provider supplies.
StatusMessage_ownTheme(p, symbols, current) ==
    LET styles == useComponentTheme(statusMessageTheme, themePropsOf(p)).styles
        symbol == Get(iconByVariant(symbols), p.variant)
    IN  Element("Box", styles.container,
                <<Element("Box", styles.iconContainer,
                          <<Element("Text", styles.icon, <<symbol>>)>>),
                  Element("Text", styles.message, <<p.children>>)>>)

\* Variant: the variant is kept from one render to the next, each render
\* drawing the icon of the variant the render before it was given.
StatusMessage_previousVariant(p, symbols, current) ==
    LET kept == IF props = [t |-> "none"] THEN p.variant ELSE props.variant
        styles == useComponentTheme(current, [variant |-> kept]).styles
        symbol == Get(iconByVariant(symbols), kept)
    IN  Element("Box", styles.container,
                <<Element("Box", styles.iconContainer,
                          <<Element("Text", styles.icon, <<symbol>>)>>),
                  Element("Text", styles.message, <<p.children>>)>>)

\* Variant: the icon container is built once, held in a module-level
\* variable and handed to every render after the first.
StatusMessage_sharedIcon(p, symbols, current) ==
    LET styles == useComponentTheme(current, themePropsOf(p)).styles
        symbol == Get(iconByVariant(symbols), p.variant)
        built == Element("Box", styles.iconContainer,
                         <<Element("Text", styles.icon, <<symbol>>)>>)
    IN  Element("Box", styles.container,
                <<IF tree = [t |-> "none"] THEN built ELSE tree.children[1],
                  Element("Text", styles.message, <<p.children>>)>>)

StatusMessage(p, symbols, current) ==
    LET styles == useComponentTheme(current, themePropsOf(p)).styles
        symbol == Get(iconByVariant(symbols), p.variant)
    IN  Element("Box", styles.container,
                <<Element("Box", styles.iconContainer,
                          <<Element("Text", styles.icon, <<symbol>>)>>),
                  Element("Text", styles.message, <<p.children>>)>>)

----------------------------------------------------------------------------
(* The mappings isUnicodeSupported is called with *)

lit_UTF8 == <<"U", "T", "F", "-", "8">>
lit_Utf8 == <<"U", "t", "f", "-", "8">>
lit_utf8NoHyphen == <<"u", "t", "f", "8">>
lit_UTF8NoHyphen == <<"U", "T", "F", "8">>
lit_en_US_UTF8 == <<"e", "n", "_", "U", "S", ".">> \o lit_UTF8
lit_en_US_utf8 == <<"e", "n", "_", "U", "S", ".">> \o utf8
lit_en_US_UTF8NoHyphen == <<"e", "n", "_", "U", "S", ".">> \o lit_UTF8NoHyphen
lit_C_utf8NoHyphen == <<"C", ".">> \o lit_utf8NoHyphen
lit_TRUECOLOR == <<"T", "R", "U", "E", "C", "O", "L", "O", "R">>
lit_24BIT == <<"2", "4", "B", "I", "T">>
lit_256color == <<"2", "5", "6", "c", "o", "l", "o", "r">>
lit_VSCode == <<"V", "S", "C", "o", "d", "e">>
lit_itermApp == <<"i", "t", "e", "r", "m", ".", "a", "p", "p">>
lit_terminalApp == <<"t", "e", "r", "m", "i", "n", "a", "l", ".", "a", "p", "p">>
lit_Apple_Terminal ==
    <<"A", "p", "p", "l", "e", "_", "T", "e", "r", "m", "i", "n", "a", "l">>
lit_Win32 == <<"W", "i", "n", "3", "2">>
lit_WIN32 == <<"W", "I", "N", "3", "2">>
lit_linux == <<"l", "i", "n", "u", "x">>
lit_darwin == <<"d", "a", "r", "w", "i", "n">>

Pad(k) == [i \in 1..k |-> "x"]

\* A text with up to MaxPad padding characters before it and after it.
Surround(core) == {Pad(i) \o core \o Pad(j) : i, j \in 0..MaxPad}

absent == [t |-> "absent"]

Choices(texts) == {absent, undefined} \cup {Str(cs) : cs \in texts}

LangChoices ==
    Choices(Surround(utf8) \cup Surround(lit_UTF8) \cup
            {<<>>, lit_Utf8, lit_utf8NoHyphen, lit_UTF8NoHyphen, lit_en_US_UTF8,
             lit_en_US_utf8, lit_en_US_UTF8NoHyphen, lit_C_utf8NoHyphen})

ColortermChoices ==
    Choices(Surround(truecolor) \cup Surround(bit24) \cup
            {<<>>, lit_TRUECOLOR, lit_24BIT, lit_256color})

TermProgramChoices ==
    Choices(Surround(vscode) \cup Surround(iTermApp) \cup Surround(TerminalApp) \cup
            {<<>>, lit_VSCode, lit_itermApp, lit_terminalApp, lit_Apple_Terminal})

PlatformChoices ==
    Choices(Surround(win32) \cup {<<>>, lit_Win32, lit_WIN32, lit_linux, lit_darwin})

\* The object literal holding the chosen properties; an absent one is left out.
MkEnv(l, c, t, p) ==
    LET chosen == [LANG |-> l, COLORTERM |-> c, TERM_PROGRAM |-> t, platform |-> p]
    IN  [k \in {x \in DOMAIN chosen : chosen[x] # absent} |-> chosen[k]]

Envs ==
    {MkEnv(l, c, t, p) : l \in LangChoices, c \in ColortermChoices,
                         t \in TermProgramChoices, p \in PlatformChoices}

\* A call with no argument passes undefined.
Args == {undefined} \cup Envs

\* The mappings used in sequences of several calls.
EnvSample ==
    {undefined,
     MkEnv(absent, absent, absent, absent),
     MkEnv(absent, absent, absent, Str(win32)),
     MkEnv(Str(lit_en_US_UTF8), absent, absent, Str(win32)),
     MkEnv(undefined, Str(lit_TRUECOLOR), Str(lit_VSCode), Str(win32)),
     MkEnv(Str(<<>>), Str(truecolor), absent, Str(win32)),
     MkEnv(absent, absent, Str(iTermApp), Str(lit_linux))}

\* Other variables a process environment holds, with values that would be
\* signals if they were read.
lit_xterm_256color ==
    <<"x", "t", "e", "r", "m", "-", "2", "5", "6", "c", "o", "l", "o", "r">>

otherVariables ==
    [LC_ALL |-> Str(lit_en_US_UTF8), LC_CTYPE |-> Str(lit_UTF8),
     TERM |-> Str(lit_xterm_256color), WT_SESSION |-> Str(vscode)]

\* { ...env, <some of the other variables> }
WithOthers(env, names) ==
    [key \in DOMAIN env \cup names |->
        IF key \in names THEN otherVariables[key] ELSE env[key]]

\* A mapping, then the same mapping with other variables added.
OtherScripts ==
    {<<env, WithOthers(env, names)>> :
        env \in EnvSample \ {undefined},
        names \in SUBSET (DOMAIN otherVariables) \ {{}}}

RECURSIVE SeqsOfLen(_, _)
SeqsOfLen(S, n) ==
    IF n = 0 THEN {<<>>}
    ELSE {<<x>> \o r : x \in S, r \in SeqsOfLen(S, n - 1)}

Scripts == UNION {SeqsOfLen(EnvSample, n) : n \in 2..MaxCalls}

----------------------------------------------------------------------------
(* The theme's and the component's callers *)

none == [t |-> "none"]

ThemeProps == {[variant |-> v] : v \in Variants}

lit_Success == <<"S", "u", "c", "c", "e", "s", "s">>
lit_ElementContent ==
    <<"E", "l", "e", "m", "e", "n", "t", " ", "c", "o", "n", "t", "e", "n", "t">>

\* String contents: empty, a word, and a text that is itself a symbol.
TextContents == {Str(<<>>), Str(lit_Success), figuresUnicode.tick}

\* <Box>...</Box> nested depth times around a text.
RECURSIVE Nested(_, _)
Nested(depth, text) ==
    IF depth = 0 THEN text
    ELSE Element("Box", <<>>, <<Nested(depth - 1, text)>>)

Contents ==
    TextContents \cup
    {Nested(d, text) : d \in 1..MaxDepth, text \in {Str(lit_ElementContent), Str(<<>>)}}

InitRender ==
    /\ styleCall = none
    /\ figures = figuresUnicode
    /\ theme = statusMessageTheme
    /\ props = none
    /\ tree = none
    /\ renders = <<>>
    /\ objects = <<>>
    /\ styleLog = <<>>

\* The tree on screen after the host has rendered the mounted component
\* with the symbol set and theme now in effect.
Rerender(p, symbols, current) ==
    IF p = none THEN none ELSE StatusMessage(p, symbols, current)

\* statusMessageTheme.styles.container(arg)
CallContainer ==
    \E arg \in {undefined} \cup ThemeProps :
        /\ styleCall' = [slot |-> "container", arg |-> arg,
                         result |-> ApplyStyle(statusMessageTheme.styles.container, arg)]
        /\ UNCHANGED <<pending, log, figures, theme, props, tree, renders, objects, styleLog>>

\* statusMessageTheme.styles.iconContainer(arg)
CallIconContainer ==
    \E arg \in {undefined} \cup ThemeProps :
        /\ styleCall' = [slot |-> "iconContainer", arg |-> arg,
                         result |-> ApplyStyle(statusMessageTheme.styles.iconContainer, arg)]
        /\ UNCHANGED <<pending, log, figures, theme, props, tree, renders, objects, styleLog>>

\* statusMessageTheme.styles.icon(props)
CallIcon ==
    \E arg \in ThemeProps :
        /\ styleCall' = [slot |-> "icon", arg |-> arg,
                         result |-> ApplyStyle(statusMessageTheme.styles.icon, arg)]
        /\ UNCHANGED <<pending, log, figures, theme, props, tree, renders, objects, styleLog>>

\* statusMessageTheme.styles.message(arg)
CallMessage ==
    \E arg \in {undefined} \cup ThemeProps :
        /\ styleCall' = [slot |-> "message", arg |-> arg,
                         result |-> ApplyStyle(statusMessageTheme.styles.message, arg)]
        /\ UNCHANGED <<pending, log, figures, theme, props, tree, renders, objects, styleLog>>

\* The host renders <StatusMessage variant={variant}>{children}</StatusMessage>.
Render ==
    \E variant \in Variants, children \in Contents :
        /\ props' = [variant |-> variant, children |-> children]
        /\ tree' = StatusMessage(props', figures, theme)
        /\ UNCHANGED <<pending, log, styleCall, figures, theme, renders, objects, styleLog>>

\* The symbol set changes (another terminal capability); the host renders
\* the mounted component again.
SetFigures ==
    \E symbols \in FigureSets :
        /\ symbols # figures
        /\ figures' = symbols
        /\ tree' = Rerender(props, symbols, theme)
        /\ UNCHANGED <<pending, log, styleCall, theme, props, renders, objects, styleLog>>

\* The theme provider supplies another theme; the host renders the mounted
\* component again.
SetTheme ==
    \E current \in Themes :
        /\ current # theme
        /\ theme' = current
        /\ tree' = Rerender(props, figures, current)
        /\ UNCHANGED <<pending, log, styleCall, figures, props, renders, objects, styleLog>>

Init ==
    /\ pending = <<>>
    /\ log = <<>>
    /\ InitRender

Next ==
    \/ CallContainer
    \/ CallIconContainer
    \/ CallIcon
    \/ CallMessage
    \/ Render
    \/ SetFigures
    \/ SetTheme

Spec == Init /\ [][Next]_vars

\* ------------------------------------------------------------------------
\* A host that renders several StatusMessage instances, again and again.

Instances == {1, 2}

\* What the host asks for: which instance, with which props.
RenderRequests ==
    {[instance |-> 1, variant |-> "success", children |-> Str(lit_Success)],
     [instance |-> 1, variant |-> "error", children |-> Str(<<>>)],
     [instance |-> 2, variant |-> "error",
      children |-> Nested(1, Str(lit_ElementContent))],
     [instance |-> 2, variant |-> "warning", children |-> Str(lit_Success)],
     [instance |-> 2, variant |-> "info", children |-> Str(<<>>)]}

InitHost ==
    /\ pending = <<>>
    /\ log = <<>>
    /\ styleCall = none
    /\ figures = figuresUnicode
    /\ theme \in Themes
    /\ props = none
    /\ tree = none
    /\ renders = <<>>
    /\ objects = <<>>
    /\ styleLog = <<>>

\* The host renders one instance; the render is kept with the props, the
\* symbol set and the theme it ran under, what the style functions were
\* called with, and the tree it returned.
HostRender ==
    \E req \in RenderRequests :
        /\ Len(renders) < MaxRenders
        /\ LET p == [variant |-> req.variant, children |-> req.children]
               t == StatusMessage(p, figures, theme)
           IN  /\ props' = p
               /\ tree' = t
               /\ renders' = Append(renders,
                     [instance |-> req.instance, props |-> p,
                      figures |-> figures, theme |-> theme,
                      slotArgs |-> SlotArgs(theme, themePropsOf(p)),
                      tree |-> t])
        /\ UNCHANGED <<pending, log, styleCall, figures, theme, objects, styleLog>>

NextHost ==
    \/ HostRender
    \/ SetFigures

SpecHost == InitHost /\ [][NextHost]_vars

\* ------------------------------------------------------------------------
\* A caller the type checker does not see (plain JavaScript, or a variant
\* read from data): at run time the variant is whatever string it passes.

UncheckedVariants ==
    Variants \cup {"unknown", "", "SUCCESS", "constructor", "toString", "__proto__"}

\* statusMessageTheme.styles.icon({ variant }) with any string.
CallIconUnchecked ==
    \E variant \in UncheckedVariants :
        /\ styleCall' = [slot |-> "icon", arg |-> [variant |-> variant],
                         result |-> ApplyStyle(statusMessageTheme.styles.icon,
                                               [variant |-> variant])]
        /\ UNCHANGED <<pending, log, figures, theme, props, tree, renders, objects, styleLog>>

\* <StatusMessage variant={variant}>{children}</StatusMessage> with any string.
RenderUnchecked ==
    \E variant \in UncheckedVariants, children \in Contents :
        /\ props' = [variant |-> variant, children |-> children]
        /\ tree' = StatusMessage(props', figures, theme)
        /\ UNCHANGED <<pending, log, styleCall, figures, theme, renders, objects, styleLog>>

NextUnchecked ==
    \/ CallIconUnchecked
    \/ RenderUnchecked
    \/ SetFigures
    \/ SetTheme

SpecUnchecked == Init /\ [][NextUnchecked]_vars

\* ------------------------------------------------------------------------
\* A caller that calls the four style functions of statusMessageTheme one
\* after another and may write into the records it was handed.

black == Str(<<"b", "l", "a", "c", "k">>)

\* Variant: a style function keeps the record it built on its first call
\* and returns that same record on every later call.
resultAddress_shared(fn, objs) ==
    IF \E i \in DOMAIN styleLog : styleLog[i].slot = fn
    THEN styleLog[CHOOSE i \in DOMAIN styleLog : styleLog[i].slot = fn].address
    ELSE Len(objs) + 1

\* () => ({ ... }): the object literal in the body of a style function
\* builds a new record at every call, at an address not used before.
resultAddress(fn, objs) == Len(objs) + 1

\* record.color = "black", written by the caller into a record it holds.
Tamper(record) ==
    [key \in DOMAIN record \cup {"color"} |->
        IF key = "color" THEN black ELSE record[key]]

Tampered(record) == "color" \in DOMAIN record /\ record.color = black

\* Calls and writes made so far.
StyleSteps ==
    Len(styleLog) + Cardinality({a \in DOMAIN objects : Tampered(objects[a])})

\* statusMessageTheme.styles[slot](arg), as one call of a sequence.
CallStyleInSequence ==
    \E slot \in Slots, arg \in {undefined} \cup ThemeProps :
        /\ StyleSteps < MaxStyleCalls
        /\ slot = "icon" => arg # undefined
        /\ LET fn == statusMessageTheme.styles[slot]
               address == resultAddress(fn, objects)
               after == IF address > Len(objects)
                        THEN Append(objects, ApplyStyle(fn, arg))
                        ELSE objects
           IN  /\ objects' = after
               /\ styleLog' = Append(styleLog,
                     [slot |-> slot, arg |-> arg, address |-> address,
                      returned |-> after[address]])
               /\ styleCall' = [slot |-> slot, arg |-> arg,
                                result |-> after[address]]
        /\ UNCHANGED <<pending, log, figures, theme, props, tree, renders>>

\* The caller changes a record a style function returned to it.
TamperWithResult ==
    \E address \in DOMAIN objects :
        /\ StyleSteps < MaxStyleCalls
        /\ ~Tampered(objects[address])
        /\ objects' = [objects EXCEPT ![address] = Tamper(objects[address])]
        /\ UNCHANGED <<pending, log, styleCall, figures, theme, props, tree,
                       renders, styleLog>>

NextTheme ==
    \/ CallStyleInSequence
    \/ TamperWithResult

SpecTheme == Init /\ [][NextTheme]_vars

----------------------------------------------------------------------------
(* The detector's callers *)

InitUnicode ==
    /\ pending \in {<<a>> : a \in Args} \cup Scripts \cup OtherScripts
    /\ log = <<>>
    /\ InitRender

\* One call isUnicodeSupported(arg) with the next argument of the caller.
CallIsUnicodeSupported ==
    /\ pending # <<>>
    /\ LET arg == Head(pending)
       IN  log' = Append(log, [arg |-> arg,
                               after |-> envAfterCall(arg),
                               raised |-> raises(arg),
                               result |-> isUnicodeSupported(arg)])
    /\ pending' = Tail(pending)
    /\ UNCHANGED <<styleCall, figures, theme, props, tree, renders, objects, styleLog>>

NextUnicode == CallIsUnicodeSupported

SpecUnicode == InitUnicode /\ [][NextUnicode]_vars

----------------------------------------------------------------------------
(* What the claims about the detector speak of *)

\* The text a key carries: none when the key is absent, undefined or empty.
TextOf(arg, key) ==
    IF arg # undefined /\ key \in DOMAIN arg /\ arg[key] # undefined
    THEN arg[key].chars
    ELSE <<>>

\* sub occurs in s at some position, letter case respected.
Occurs(sub, s) ==
    \E i \in 1..Len(s) :
        /\ i + Len(sub) - 1 <= Len(s)
        /\ \A k \in 1..Len(sub) : s[i + k - 1] = sub[k]

\* The same, letter case ignored (sub is written in lower case).
OccursAnyCase(sub, s) ==
    \E i \in 1..Len(s) :
        /\ i + Len(sub) - 1 <= Len(s)
        /\ \A k \in 1..Len(sub) :
              \/ s[i + k - 1] = sub[k]
              \/ s[i + k - 1] \in DOMAIN LowerOf /\ LowerOf[s[i + k - 1]] = sub[k]

LocaleSignal(arg) == OccursAnyCase(utf8, TextOf(arg, "LANG"))

ColortermSignal(arg) ==
    \E sub \in {truecolor, bit24} : Occurs(sub, TextOf(arg, "COLORTERM"))

TermProgramSignal(arg) ==
    \E sub \in {vscode, iTermApp, TerminalApp} : Occurs(sub, TextOf(arg, "TERM_PROGRAM"))

AnySignal(arg) == LocaleSignal(arg) \/ ColortermSignal(arg) \/ TermProgramSignal(arg)

PlatformIsWin32(arg) == TextOf(arg, "platform") = win32

\* A value that matches a recognised text only when letter case is ignored.
CaseVariantOnly(arg) ==
    \/ /\ ~ColortermSignal(arg)
       /\ \E sub \in {truecolor, bit24} : OccursAnyCase(sub, TextOf(arg, "COLORTERM"))
    \/ /\ ~TermProgramSignal(arg)
       /\ \E sub \in {vscode, toLowerCase(iTermApp), toLowerCase(TerminalApp)} :
              OccursAnyCase(sub, TextOf(arg, "TERM_PROGRAM"))

Calls == {log[i] : i \in DOMAIN log}

\* C3: a call whose platform is exactly "win32" and that carries no
\* supporting signal (LANG, COLORTERM and TERM_PROGRAM each absent, undefined,
\* empty or without a recognised text) returns false.
C3_Win32NoSignalIsFalse ==
    \A c \in Calls :
        PlatformIsWin32(c.arg) /\ ~AnySignal(c.arg) => c.result = FALSE

C3_Witness ==
    \E c \in Calls :
        /\ c.arg # undefined
        /\ PlatformIsWin32(c.arg)
        /\ Get(c.arg, "LANG") = Str(lit_en_US_UTF8NoHyphen)
        /\ Get(c.arg, "COLORTERM") = undefined /\ "COLORTERM" \in DOMAIN c.arg
        /\ Get(c.arg, "TERM_PROGRAM") = Str(<<>>)
        /\ c.result = FALSE

\* C4: a call whose platform is not exactly "win32" (absent, undefined, empty
\* or any other text) returns true whatever LANG, COLORTERM and TERM_PROGRAM
\* hold; so do isUnicodeSupported({}) and isUnicodeSupported().
C4_NotWin32IsTrue ==
    \A c \in Calls : ~PlatformIsWin32(c.arg) => c.result = TRUE

C4_Witness ==
    /\ \E c \in Calls : c.arg = undefined /\ c.result = TRUE
    /\ \E c \in Calls : c.arg = <<>> /\ c.result = TRUE

\* C5: each supporting signal alone makes the result true, also on "win32":
\* LANG containing "utf-8", COLORTERM containing "truecolor" or "24bit",
\* TERM_PROGRAM containing "vscode", "iTerm.app" or "Terminal.app", as a
\* substring.
C5_EachSignalSuffices ==
    \A c \in Calls :
        \/ Occurs(utf8, TextOf(c.arg, "LANG"))
        \/ ColortermSignal(c.arg)
        \/ TermProgramSignal(c.arg)
        => c.result = TRUE

C5_Witness ==
    \E c \in Calls :
        /\ PlatformIsWin32(c.arg)
        /\ ~LocaleSignal(c.arg) /\ ~ColortermSignal(c.arg)
        /\ TextOf(c.arg, "TERM_PROGRAM") = Pad(1) \o TerminalApp \o Pad(1)
        /\ c.result = TRUE

\* C6: only the locale check ignores letter case.  On "win32" with no other
\* signal, LANG containing "utf-8" in any letter case gives true; a COLORTERM
\* or TERM_PROGRAM value that matches a recognised text only when case is
\* ignored gives false.
C6_OnlyLocaleIgnoresCase ==
    \A c \in Calls :
        PlatformIsWin32(c.arg) /\ ~ColortermSignal(c.arg) /\ ~TermProgramSignal(c.arg)
        => /\ LocaleSignal(c.arg) => c.result = TRUE
           /\ ~LocaleSignal(c.arg) /\ CaseVariantOnly(c.arg) => c.result = FALSE

C6_Witness ==
    /\ \E c \in Calls :
          /\ PlatformIsWin32(c.arg)
          /\ TextOf(c.arg, "LANG") = lit_en_US_UTF8
          /\ ~ColortermSignal(c.arg) /\ ~TermProgramSignal(c.arg)
          /\ c.result = TRUE
    /\ \E c \in Calls :
          /\ PlatformIsWin32(c.arg)
          /\ ~LocaleSignal(c.arg)
          /\ TextOf(c.arg, "COLORTERM") = lit_TRUECOLOR
          /\ TextOf(c.arg, "TERM_PROGRAM") = lit_VSCode
          /\ c.result = FALSE

----------------------------------------------------------------------------
(* What the claims about the theme and the component speak of *)

IsElement(node) == "type" \in DOMAIN node

\* The strings at the leaves of an element tree.
RECURSIVE TextLeaves(_)
TextLeaves(node) ==
    IF IsElement(node)
    THEN UNION {TextLeaves(node.children[i]) : i \in DOMAIN node.children}
    ELSE {node}

\* The slot of the symbol set each variant takes its icon from.
SymbolSlot == [info |-> "info", success |-> "tick", error |-> "cross", warning |-> "warning"]

Rendered == tree # none

\* C1: for each of the four variants the default theme's icon({variant}) is
\* the record holding exactly color, with success -> green, error -> red,
\* warning -> yellow, info -> blue.
C1_IconColorIsFixedMapping ==
    styleCall # none /\ styleCall.slot = "icon" =>
        styleCall.result =
            [color |-> CASE styleCall.arg.variant = "success" -> green
                         [] styleCall.arg.variant = "error" -> red
                         [] styleCall.arg.variant = "warning" -> yellow
                         [] styleCall.arg.variant = "info" -> blue]

C1_Witness ==
    /\ styleCall # none
    /\ styleCall.slot = "icon"
    /\ styleCall.arg = [variant |-> "warning"]
    /\ styleCall.result.color = yellow

\* C2: the default theme's container(), iconContainer() and message() return
\* {columnGap: 1}, {flexShrink: 0} and {} whether called with one of the four
\* variants or with no argument.
C2_FixedStylesIgnoreVariant ==
    styleCall # none =>
        /\ styleCall.slot = "container" => styleCall.result = [columnGap |-> 1]
        /\ styleCall.slot = "iconContainer" => styleCall.result = [flexShrink |-> 0]
        /\ styleCall.slot = "message" => DOMAIN styleCall.result = {}

C2_Witness ==
    /\ styleCall # none
    /\ styleCall.slot = "container"
    /\ styleCall.arg = [variant |-> "error"]
    /\ styleCall.result = [columnGap |-> 1]

\* C8: for every variant and every content, the empty string included, the
\* rendered tree holds the symbol the symbol set in effect gives for the
\* variant (info -> info, success -> tick, error -> cross, warning ->
\* warning); content that is a non-empty string is held too.
C8_RenderHoldsSymbolAndText ==
    Rendered =>
        /\ figures[SymbolSlot[props.variant]] \in TextLeaves(tree)
        /\ ~IsElement(props.children) /\ props.children.chars # <<>>
           => props.children \in TextLeaves(tree)

C8_Witness ==
    /\ Rendered
    /\ props = [variant |-> "success", children |-> Str(<<>>)]
    /\ figures = figuresFallback
    /\ figuresFallback.tick \in TextLeaves(tree)

\* C9: the message text node's child is exactly the content the caller
\* supplied, a string or a nested element alike, and rendering again with
\* other content but the same variant, symbol set and theme leaves the icon
\* part (symbol and color) as it was.
C9_ContentForwardedUnmodified ==
    /\ [](Rendered => tree.children[2].children = <<props.children>>)
    /\ [][Rendered /\ tree' # none /\ props'.variant = props.variant
             /\ figures' = figures /\ theme' = theme
          => tree'.children[1] = tree.children[1]]_vars

C9_Witness ==
    /\ Rendered
    /\ props.children = Nested(2, Str(lit_ElementContent))
    /\ tree.children[2].children[1] = Nested(2, Str(lit_ElementContent))

\* C10: every render emits one outer container with exactly two children:
\* first the icon container wrapping one text node that carries the selected
\* icon, then one text node carrying the content.
C10_TreeShape ==
    Rendered =>
        /\ tree.type = "Box"
        /\ Len(tree.children) = 2
        /\ tree.children[1].type = "Box"
        /\ Len(tree.children[1].children) = 1
        /\ tree.children[1].children[1].type = "Text"
        /\ tree.children[1].children[1].children =
               <<figures[SymbolSlot[props.variant]]>>
        /\ tree.children[2].type = "Text"
        /\ tree.children[2].children = <<props.children>>

C10_Witness ==
    /\ Rendered
    /\ props = [variant |-> "error", children |-> Nested(1, Str(<<>>))]
    /\ theme = customTheme
    /\ tree.children[1].children[1].children = <<figures.cross>>

\* ------------------------------------------------------------------------
\* Claims on the resolution of the styles and on renders of several instances.

Renders == {renders[i] : i \in DOMAIN renders}

ColorOf(variant) ==
    CASE variant = "success" -> green
      [] variant = "error" -> red
      [] variant = "warning" -> yellow
      [] variant = "info" -> blue

\* The style record the tree carries at each slot.
StylesOnTree(t) ==
    [container |-> t.props,
     iconContainer |-> t.children[1].props,
     icon |-> t.children[1].children[1].props,
     message |-> t.children[2].props]

\* C12: a host may override any subset of the four style slots; the rendered
\* tree then carries the overriding records for exactly those slots and the
\* default records for every other slot, and the icon symbol and the content
\* are the same as without the override.
C12_OverridesReplaceExactlyTheirSlots ==
    Rendered =>
        LET overridden == {slot \in Slots :
                              theme.styles[slot] # statusMessageTheme.styles[slot]}
            defaults == [container |-> [columnGap |-> 1],
                         iconContainer |-> [flexShrink |-> 0],
                         icon |-> [color |-> ColorOf(props.variant)],
                         message |-> <<>>]
            overrides == [container |-> [columnGap |-> 2],
                          iconContainer |-> [flexShrink |-> 1],
                          icon |-> [color |-> customColorMap[props.variant]],
                          message |-> [bold |-> TRUE]]
        IN  /\ \A slot \in Slots :
                  StylesOnTree(tree)[slot] =
                      IF slot \in overridden THEN overrides[slot]
                      ELSE defaults[slot]
            /\ tree.children[1].children[1].children =
                   <<figures[SymbolSlot[props.variant]]>>
            /\ tree.children[2].children = <<props.children>>

C12_Witness ==
    /\ Rendered
    /\ theme = ThemeWith({"icon", "message"})
    /\ props = [variant |-> "error", children |-> Str(lit_Success)]
    /\ tree.props = [columnGap |-> 1]
    /\ tree.children[1].props = [flexShrink |-> 0]
    /\ tree.children[1].children[1].props = [color |-> magenta]
    /\ tree.children[2].props = [bold |-> TRUE]
    /\ tree.children[1].children[1].children = <<figures.cross>>

C14_InstancesDoNotInterfere ==
    \A r \in Renders :
        /\ r.tree.children[1].children[1].children =
               <<r.figures[SymbolSlot[r.props.variant]]>>
        /\ r.tree.children[1].children[1].props =
               [color |-> IF r.theme.styles.icon = statusMessageTheme.styles.icon
                          THEN ColorOf(r.props.variant)
                          ELSE customColorMap[r.props.variant]]
        /\ r.tree.children[2].children = <<r.props.children>>

C14_Witness ==
    /\ Len(renders) = 3
    /\ renders[1].instance = 1 /\ renders[1].props.variant = "success"
    /\ renders[2].instance = 2 /\ renders[2].props.variant = "error"
    /\ renders[3].instance = 1 /\ renders[3].props.variant = "success"
    /\ renders[2].tree.children[1].children[1].children = <<renders[2].figures.cross>>
    /\ renders[2].tree.children[1].children[1].props = [color |-> red]
    /\ renders[3].tree.children[1].children[1].children = <<renders[3].figures.tick>>
    /\ renders[3].tree.children[2].children = <<Str(lit_Success)>>

\* The icon text of the tree.
IconText(t) == t.children[1].children[1].children

\* C15: StatusMessage takes no Unicode-or-ASCII decision of its own: the icon
\* it renders is exactly the symbol the injected symbol set holds at the
\* variant's slot, so under the fallback set the fallback symbol is rendered;
\* and no render calls isUnicodeSupported.
C15_IconIsTheInjectedSymbol ==
    /\ Rendered =>
          /\ IconText(tree) = <<figures[SymbolSlot[props.variant]]>>
          /\ figures = figuresFallback =>
                IconText(tree) =
                    <<CASE props.variant = "info" -> Str(<<"i">>)
                        [] props.variant = "success" -> Str(<<"U+221A">>)
                        [] props.variant = "error" -> Str(<<"U+00D7">>)
                        [] props.variant = "warning" -> Str(<<"U+203C">>)>>
    /\ log = <<>>
    /\ pending = <<>>

C15_Witness ==
    /\ Rendered
    /\ figures = figuresFallback
    /\ props.variant = "info"
    /\ IconText(tree) = <<Str(<<"i">>)>>
    /\ log = <<>>

\* ------------------------------------------------------------------------
\* Claims on sequences of style function calls.

\* What each default style function returns when it is called alone.
CalledAlone(slot, arg) ==
    CASE slot = "container" -> [columnGap |-> 1]
      [] slot = "iconContainer" -> [flexShrink |-> 0]
      [] slot = "icon" -> [color |-> ColorOf(arg.variant)]
      [] slot = "message" -> <<>>

\* C16: the four style functions are pure and order-independent: in any
\* sequence of calls with any variants, every call returns the record it
\* returns when called alone, each call returns a record built anew, so a
\* change the caller made to an earlier result shows in no later result, and
\* the colors follow the same variant-to-color mapping throughout.
C16_StyleCallsArePure ==
    /\ \A i \in DOMAIN styleLog :
          styleLog[i].returned = CalledAlone(styleLog[i].slot, styleLog[i].arg)
    /\ \A i, j \in DOMAIN styleLog :
          i # j => styleLog[i].address # styleLog[j].address

C16_Witness ==
    /\ Len(styleLog) = 2
    /\ styleLog[1].slot = "icon" /\ styleLog[1].arg = [variant |-> "success"]
    /\ styleLog[2].slot = "icon" /\ styleLog[2].arg = [variant |-> "success"]
    /\ objects[styleLog[1].address] = [color |-> black]
    /\ styleLog[2].returned = [color |-> green]
    /\ objects[styleLog[2].address] = [color |-> green]

\* ------------------------------------------------------------------------
\* Further claims on isUnicodeSupported.

\* C17: isUnicodeSupported is total: for every mapping in which each of
\* LANG, COLORTERM, TERM_PROGRAM and platform is absent, undefined, the empty
\* string or some other string, and for a call without argument, the call
\* raises no error and returns a boolean.
C17_Total ==
    \A c \in Calls : ~c.raised /\ c.result \in BOOLEAN

C17_Witness ==
    \E c \in Calls, d \in Calls, e \in Calls :
        /\ c.arg = undefined /\ ~c.raised /\ c.result = TRUE
        /\ "LANG" \in DOMAIN d.arg /\ d.arg.LANG = undefined
        /\ ~d.raised /\ d.result = FALSE
        /\ DOMAIN e.arg = {"platform"} /\ e.arg.platform = Str(win32)
        /\ ~e.raised /\ e.result = FALSE

\* The algorithm told step by step: LANG decides if it declares UTF-8; else
\* COLORTERM if it names a recognised value; else TERM_PROGRAM likewise; else
\* the platform: false for "win32", true otherwise.
StepByStep(arg) ==
    IF LocaleSignal(arg) THEN TRUE
    ELSE IF ColortermSignal(arg) THEN TRUE
    ELSE IF TermProgramSignal(arg) THEN TRUE
    ELSE IF PlatformIsWin32(arg) THEN FALSE
    ELSE TRUE

CheckNames == {"LANG", "COLORTERM", "TERM_PROGRAM", "platform"}

Check(name, arg) ==
    CASE name = "LANG" -> LocaleSignal(arg)
      [] name = "COLORTERM" -> ColortermSignal(arg)
      [] name = "TERM_PROGRAM" -> TermProgramSignal(arg)
      [] name = "platform" -> ~PlatformIsWin32(arg)

\* The four checks in every order.
Orders ==
    {order \in [1..4 -> CheckNames] : {order[i] : i \in 1..4} = CheckNames}

\* The checks taken in the given order, stopping at the first that holds.
RECURSIVE EvalInOrder(_, _)
EvalInOrder(order, arg) ==
    IF order = <<>> THEN FALSE
    ELSE IF Check(Head(order), arg) THEN TRUE
    ELSE EvalInOrder(Tail(order), arg)

\* C18: for every mapping the single disjunction of the code returns what
\* the step-by-step algorithm (LANG; else COLORTERM; else TERM_PROGRAM; else
\* platform) returns, and what the four checks return taken in any order.
C18_StepsEqualDisjunction ==
    \A c \in Calls :
        /\ c.result = StepByStep(c.arg)
        /\ \A order \in Orders : c.result = EvalInOrder(order, c.arg)

C18_Witness ==
    \E c \in Calls :
        /\ ~LocaleSignal(c.arg)
        /\ ~ColortermSignal(c.arg)
        /\ TermProgramSignal(c.arg)
        /\ PlatformIsWin32(c.arg)
        /\ c.result = TRUE
        /\ StepByStep(c.arg) = TRUE
        /\ EvalInOrder(<<"platform", "TERM_PROGRAM", "COLORTERM", "LANG">>, c.arg) = TRUE

\* What a mapping holds at a key: undefined when it has no such key.
ValueAt(arg, key) ==
    IF arg # undefined /\ key \in DOMAIN arg THEN arg[key] ELSE undefined

\* C19: the result depends on LANG, COLORTERM, TERM_PROGRAM and platform
\* only: two calls whose mappings agree on these four keys return the same
\* result, whatever other keys (LC_ALL, LC_CTYPE, TERM, WT_SESSION) they hold.
C19_OnlyFourKeysMatter ==
    \A c \in Calls, d \in Calls :
        (\A key \in CheckNames : ValueAt(c.arg, key) = ValueAt(d.arg, key))
        => c.result = d.result

C19_Witness ==
    \E c \in Calls, d \in Calls :
        /\ DOMAIN c.arg = {"platform"}
        /\ c.arg.platform = Str(win32)
        /\ DOMAIN d.arg = {"platform", "LC_ALL", "LC_CTYPE", "TERM", "WT_SESSION"}
        /\ d.arg.platform = Str(win32)
        /\ d.arg.LC_ALL = Str(lit_en_US_UTF8)
        /\ c.result = FALSE
        /\ d.result = FALSE

\* A LANG value that declares UTF-8 in the spelling without the hyphen only.
UnhyphenatedOnly(arg) ==
    /\ OccursAnyCase(<<"u", "t", "f", "8">>, TextOf(arg, "LANG"))
    /\ ~OccursAnyCase(utf8, TextOf(arg, "LANG"))

\* C20: the locale check knows the hyphenated spelling only: a call with
\* platform "win32", no COLORTERM or TERM_PROGRAM signal and a LANG that
\* declares UTF-8 without the hyphen ("en_US.UTF8", "C.utf8") returns false.
C20_UnhyphenatedIsNotRecognised ==
    \A c \in Calls :
        /\ PlatformIsWin32(c.arg)
        /\ ~ColortermSignal(c.arg)
        /\ ~TermProgramSignal(c.arg)
        /\ UnhyphenatedOnly(c.arg)
        => c.result = FALSE

C20_Witness ==
    \E c \in Calls :
        /\ c.arg = [LANG |-> Str(lit_C_utf8NoHyphen),
                    COLORTERM |-> Str(lit_256color),
                    platform |-> Str(win32)]
        /\ UnhyphenatedOnly(c.arg)
        /\ c.result = FALSE

\* ------------------------------------------------------------------------
\* Claims on the two mappings of the variants.

\* The slots of the symbol set a render's icon text is found at.
SlotsOfIcon(r) ==
    {slot \in DOMAIN r.figures : IconText(r.tree) = <<r.figures[slot]>>}

DefaultIconStyle(r) == r.theme.styles.icon = statusMessageTheme.styles.icon

\* C21: the variant-to-color and the variant-to-symbol-slot mappings are
\* total and one-to-one over the four variants: every render of a variant
\* carries exactly one color (a string, under the default icon style) and
\* the symbol of exactly one slot, and two renders with different variants
\* carry neither the same color nor the symbol of the same slot.
C21_MappingsTotalAndOneToOne ==
    /\ \A r \in Renders :
          /\ r.props.variant \in Variants
          /\ Cardinality(SlotsOfIcon(r)) = 1
          /\ DefaultIconStyle(r) =>
                /\ DOMAIN StylesOnTree(r.tree).icon = {"color"}
                /\ StylesOnTree(r.tree).icon.color \in {green, red, yellow, blue}
    /\ \A r \in Renders, q \in Renders :
          r.props.variant # q.props.variant =>
              /\ SlotsOfIcon(r) \cap SlotsOfIcon(q) = {}
              /\ DefaultIconStyle(r) /\ DefaultIconStyle(q) =>
                    StylesOnTree(r.tree).icon.color # StylesOnTree(q.tree).icon.color

C21_Witness ==
    /\ Len(renders) = 3
    /\ renders[1].props.variant = "info"
    /\ renders[2].props.variant = "warning"
    /\ renders[3].props.variant = "error"
    /\ DefaultIconStyle(renders[1])
    /\ SlotsOfIcon(renders[1]) = {"info"}
    /\ SlotsOfIcon(renders[2]) = {"warning"}
    /\ SlotsOfIcon(renders[3]) = {"cross"}
    /\ StylesOnTree(renders[1].tree).icon.color = blue
    /\ StylesOnTree(renders[2].tree).icon.color = yellow
    /\ StylesOnTree(renders[3].tree).icon.color = red

\* ------------------------------------------------------------------------
\* Claims on variants outside the enumeration.

====
